---- MODULE Spec2Model ----
(***************************************************************************)
(* Model of load.py: the YAML document cache (YamlCacher), the recursive   *)
(* import resolver and field checkers (Merger) and the driver (load, main).*)
(* Strings are TLA+ strings; the string functions of the code (endswith,   *)
(* basename, replace, the cpp regular expression) are computed character   *)
(* by character.                                                           *)
(***************************************************************************)
EXTENDS Integers, Sequences, FiniteSets, TLC

VARIABLES files, cache, nloads, tname, name_, merged, done, blacklist,
          frames, pc, vi, err, hist, prev

vars == <<files, cache, nloads, tname, name_, merged, done, blacklist,
          frames, pc, vi, err, hist, prev>>

(* ---------------------------------------------------------------------- *)
(* Bounds                                                                  *)
(* ---------------------------------------------------------------------- *)
\* number of targets on the command line (loads sharing one cache)
MaxLoads == 2
\* number of documents on disk that differ from the reference documents
MaxVaried == 2

(* ---------------------------------------------------------------------- *)
(* String functions                                                        *)
(* ---------------------------------------------------------------------- *)
Range(s) == {s[i] : i \in DOMAIN s}

Ch(s, i) == SubSeq(s, i, i)

\* str.endswith
EndsWith(s, suf) ==
    /\ Len(s) >= Len(suf)
    /\ SubSeq(s, Len(s) - Len(suf) + 1, Len(s)) = suf

\* `c in s` for a one-character c
Contains(s, c) == \E i \in 1..Len(s) : Ch(s, i) = c

\* os.path.basename: what follows the last '/'
Basename(s) ==
    LET slashes == {i \in 1..Len(s) : Ch(s, i) = "/"}
        last == IF slashes = {} THEN 0
                ELSE CHOOSE i \in slashes : \A k \in slashes : k <= i
    IN SubSeq(s, last + 1, Len(s))

\* val.replace('.', '_')
RECURSIVE ReplaceDot(_)
ReplaceDot(s) ==
    IF Len(s) = 0 THEN ""
    ELSE (IF Ch(s, 1) = "." THEN "_" ELSE Ch(s, 1))
         \o ReplaceDot(SubSeq(s, 2, Len(s)))

Digits == {"0", "1", "2", "3", "4", "5", "6", "7", "8", "9"}
OctDigits == {"0", "1", "2", "3", "4", "5", "6", "7"}
HexDigits == Digits \cup {"A", "B", "C", "D", "E", "F",
                          "a", "b", "c", "d", "e", "f"}
IdStart == {"A", "B", "C", "D", "E", "F", "G", "H", "I", "J", "K", "L", "M",
            "N", "O", "P", "Q", "R", "S", "T", "U", "V", "W", "X", "Y", "Z",
            "a", "b", "c", "d", "e", "f", "g", "h", "i", "j", "k", "l", "m",
            "n", "o", "p", "q", "r", "s", "t", "u", "v", "w", "x", "y", "z",
            "_"}

AllIn(s, from, set) == \A i \in from..Len(s) : Ch(s, i) \in set

\* cpp_regex_id
cpp_regex_id(s) ==
    /\ Len(s) >= 1
    /\ Ch(s, 1) \in IdStart
    /\ AllIn(s, 2, IdStart \cup Digits)

\* cpp_regex_int
cpp_regex_int(s) ==
    \/ /\ Len(s) >= 3
       /\ Ch(s, 1) = "0"
       /\ Ch(s, 2) \in {"B", "b"}
       /\ AllIn(s, 3, {"0", "1"})
    \/ /\ Len(s) >= 1
       /\ Ch(s, 1) = "0"
       /\ AllIn(s, 2, OctDigits)
    \/ /\ Len(s) >= 1
       /\ Ch(s, 1) \in (Digits \ {"0"})
       /\ AllIn(s, 2, Digits)
    \/ /\ Len(s) >= 3
       /\ Ch(s, 1) = "0"
       /\ Ch(s, 2) \in {"X", "x"}
       /\ AllIn(s, 3, HexDigits)

\* cpp_regex_atom
cpp_regex_atom(s) == cpp_regex_id(s) \/ cpp_regex_int(s)

\* cpp_regex_term: [?]?(id | id == atom)
cpp_regex_term(s) ==
    LET r == IF Len(s) >= 1 /\ Ch(s, 1) = "?" THEN SubSeq(s, 2, Len(s))
             ELSE s
    IN \/ cpp_regex_id(r)
       \/ \E i \in 2..(Len(r) - 4) :
             /\ SubSeq(r, i, i + 3) = " == "
             /\ cpp_regex_id(SubSeq(r, 1, i - 1))
             /\ cpp_regex_atom(SubSeq(r, i + 4, Len(r)))

\* cpp_regex.fullmatch: term( || term)*
RECURSIVE cpp_regex(_)
cpp_regex(s) ==
    \/ cpp_regex_term(s)
    \/ \E i \in 2..(Len(s) - 4) :
          /\ SubSeq(s, i, i + 3) = " || "
          /\ cpp_regex_term(SubSeq(s, 1, i - 1))
          /\ cpp_regex(SubSeq(s, i + 4, Len(s)))

(* ---------------------------------------------------------------------- *)
(* Values: str, list of str, bool, None.  A list is a Python object: `o`   *)
(* is the file whose parse created it ("" for a list a checker created).   *)
(* ---------------------------------------------------------------------- *)
Str(s) == [t |-> "str", s |-> s, l |-> <<>>, b |-> FALSE, o |-> ""]
Lst(l) == [t |-> "list", s |-> "", l |-> l, b |-> FALSE, o |-> ""]
Bool(b) == [t |-> "bool", s |-> "", l |-> <<>>, b |-> b, o |-> ""]
None == [t |-> "none", s |-> "", l |-> <<>>, b |-> FALSE, o |-> ""]

Item(k, v) == [key |-> k, val |-> v]
Doc(items) == [root |-> "map", items |-> items]

\* no repeated element: len(set(val)) == len(val)
Distinct(l) == Cardinality(Range(l)) = Len(l)

(* ---------------------------------------------------------------------- *)
(* The documents on disk (what yaml.load returns for each file) and the    *)
(* command line.  Every scalar is a str: OrderedUniqueSafeLoader has no    *)
(* constructors, so no value of a document is None or a bool.              *)
(* ---------------------------------------------------------------------- *)
BaseName == "misc/default"

Targets == {"triple/t", "triple/u.yml", "arch/a", "misc/default"}

FileNames == {"misc/default.yml", "triple/t.yml", "triple/u.yml",
              "arch/a.yml", "arch/b_c.yml", "lib/c.yml"}

Absent == [root |-> "absent", items |-> <<>>]
NotAMapping == [root |-> "seq", items |-> <<>>]

Common == <<Item("default_char_sign", Str("signed")),
            Item("short", Str("16")), Item("int", Str("32")),
            Item("long", Str("64")), Item("long_long", Str("64")),
            Item("size", Str("64")), Item("ptr", Str("64")),
            Item("reg", Str("64")), Item("libc", Str("glibc")),
            Item("endian", Str("little"))>>

\* For each file the documents it may hold; the first is the reference one.
Alts ==
  [n \in FileNames |->
    CASE n = "misc/default.yml" ->
           <<Doc(Common \o <<Item("obj", Str("elf")), Item("kernel", Str("0")),
                              Item("cpp", Lst(<<"A">>))>>),
             Doc(Common \o <<Item("obj", Str("elf")),
                              Item("kernel", Str("0"))>>),
             Doc(Common \o <<Item("kernel", Str("0")),
                              Item("cpp", Lst(<<"A">>))>>),
             Doc(<<Item("triples", Lst(<<"t">>))>> \o Common),
             Doc(<<Item("import", Lst(<<"triple/t">>))>> \o Common)>>
      [] n = "triple/t.yml" ->
           <<Doc(<<Item("triples", Lst(<<"t", "t2">>)),
                   Item("import", Lst(<<"arch/a", "arch/b_c">>)),
                   Item("kernel", Str("2")),
                   Item("cpp", Lst(<<"T">>))>>),
             Doc(<<Item("kernel", Str("2")),
                   Item("triples", Lst(<<"t">>)),
                   Item("import", Lst(<<"arch/a">>)),
                   Item("variants", Lst(<<"t", "u">>))>>),
             Doc(<<Item("triples", Lst(<<"t">>)),
                   Item("import", Lst(<<"lib/c", "arch/a">>)),
                   Item("freestanding", Str("true")),
                   Item("variants", Lst(<<"u", "t">>))>>),
             Doc(<<Item("import", Lst(<<"arch/a">>)),
                   Item("bogus", Str("x")),
                   Item("triples", Lst(<<"t">>))>>),
             Doc(<<Item("import", Lst(<<"arch/a">>)),
                   Item("triples", Lst(<<"u", "t">>))>>),
             Doc(<<Item("triples", Lst(<<"t", "t">>)),
                   Item("import", Lst(<<"arch/a">>))>>)>>
      [] n = "triple/u.yml" ->
           <<Doc(<<Item("triples", Lst(<<"u">>)),
                   Item("import", Lst(<<"arch/a">>))>>),
             Doc(<<Item("import", Lst(<<"triple/t">>))>>),
             Absent,
             Doc(<<Item("cpp", Lst(<<"U">>)),
                   Item("triples", Lst(<<"u">>)),
                   Item("import", Lst(<<"arch/b_c">>))>>)>>
      [] n = "arch/a.yml" ->
           <<Doc(<<Item("arch", Str("a")),
                   Item("import", Lst(<<"lib/c">>)),
                   Item("kernel", Str("1"))>>),
             Doc(<<Item("arch", Str("a")),
                   Item("cpp", Lst(<<"?a">>)),
                   Item("import", Lst(<<"arch/b_c">>))>>),
             Doc(<<Item("arch", Str("a")),
                   Item("triples", Lst(<<"t">>))>>)>>
      [] n = "arch/b_c.yml" ->
           <<Doc(<<Item("arch", Str("b.c")),
                   Item("import", Lst(<<"lib/c">>)),
                   Item("cpp", Lst(<<"B == 1">>))>>),
             Doc(<<Item("import", Lst(<<"arch/a">>)),
                   Item("arch", Str("b_c"))>>),
             Doc(<<Item("arch", Str("b"))>>)>>
      [] n = "lib/c.yml" ->
           <<Doc(<<Item("variant_flags", Str("-m"))>>),
             Doc(<<Item("import", Lst(<<"lib/c">>))>>),
             Doc(<<Item("cpp", Lst(<<"c", "c">>))>>),
             NotAMapping>>]

MaxAlts == CHOOSE m \in {Len(Alts[n]) : n \in FileNames} :
               \A n \in FileNames : Len(Alts[n]) <= m

Choices ==
    {c \in [FileNames -> 1..MaxAlts] :
        /\ \A n \in FileNames : c[n] <= Len(Alts[n])
        /\ Cardinality({n \in FileNames : c[n] # 1}) <= MaxVaried}

FileSystems == {[n \in FileNames |-> Alts[n][c[n]]] : c \in Choices}

\* os.path.exists / open() succeeding
Exists(fn) == fn \in DOMAIN files /\ files[fn].root # "absent"

(* ---------------------------------------------------------------------- *)
(* Merger: the checkers.  A checker yields [ok, val, type, why, ext]:      *)
(* the value it returns, or the exception it raises; ext says that it      *)
(* extended the list object old_val in place.                              *)
(* ---------------------------------------------------------------------- *)
Ok(v) == [ok |-> TRUE, val |-> v, type |-> "", why |-> "", ext |-> FALSE]
Raise(type, why) ==
    [ok |-> FALSE, val |-> None, type |-> type, why |-> why, ext |-> FALSE]

\* self._blacklist[-1]
Top(bl) == bl[Len(bl)]

_optional_unique_check(key, val, old_val) ==
    IF old_val.t # "none" THEN Raise("AssertionError", "old_val is None")
    ELSE IF val.t = "none" THEN Ok(Str(""))
    ELSE IF val.t # "str" THEN Raise("AssertionError", "isinstance str")
    ELSE Ok(val)

\* (mutant) an absent value is defaulted to the empty string
_simple_override_check_default(key, val, old_val) ==
    IF val.t = "none" THEN Ok(Str(""))
    ELSE IF val.t # "str" THEN Raise("AssertionError", "isinstance str")
    ELSE Ok(val)

\* (mutant) a value already merged is kept
_simple_override_check_first(key, val, old_val) ==
    IF val.t = "none" THEN Raise("AssertionError", "not defined")
    ELSE IF val.t # "str" THEN Raise("AssertionError", "isinstance str")
    ELSE IF old_val.t # "none" THEN Ok(old_val)
    ELSE Ok(val)

_simple_override_check(key, val, old_val) ==
    IF val.t = "none" THEN Raise("AssertionError", "not defined")
    ELSE IF val.t # "str" THEN Raise("AssertionError", "isinstance str")
    ELSE Ok(val)

_bool_check(key, val, old_val) ==
    IF val.t = "none" THEN Ok(Bool(FALSE))
    ELSE IF val.t # "str" THEN Raise("TypeError", "unhashable")
    ELSE IF val.s = "true" THEN Ok(Bool(TRUE))
    ELSE IF val.s = "false" THEN Ok(Bool(FALSE))
    ELSE Raise("KeyError", val.s)

\* (mutant) the depth of the active stack is not checked
check_triples_anydepth(key, val, old_val) ==
    IF old_val.t # "none" THEN Raise("AssertionError", "old_val is None")
    ELSE IF val.t # "list" THEN Raise("AssertionError", "isinstance list")
    ELSE IF Len(val.l) = 0 THEN Raise("IndexError", "val[0]")
    ELSE IF val.l[1] # name_ THEN Raise("AssertionError", "Mismatch triple")
    ELSE IF "triple/" \o name_ # Top(blacklist)
         THEN Raise("AssertionError", "triple/name")
    ELSE IF ~Distinct(val.l) THEN Raise("AssertionError", "Duplicate aliases")
    ELSE Ok(val)

check_triples(key, val, old_val) ==
    IF old_val.t # "none" THEN Raise("AssertionError", "old_val is None")
    ELSE IF val.t # "list" THEN Raise("AssertionError", "isinstance list")
    ELSE IF Len(val.l) = 0 THEN Raise("IndexError", "val[0]")
    ELSE IF val.l[1] # name_ THEN Raise("AssertionError", "Mismatch triple")
    ELSE IF Len(blacklist) # 1
         THEN Raise("AssertionError", "triple must be in top file")
    ELSE IF "triple/" \o name_ # Top(blacklist)
         THEN Raise("AssertionError", "triple/name")
    ELSE IF ~Distinct(val.l) THEN Raise("AssertionError", "Duplicate aliases")
    ELSE Ok(val)

check_variants(key, val, old_val) ==
    IF val.t = "none" THEN Ok(Lst(<<name_>>))
    ELSE IF old_val.t # "none" THEN Raise("AssertionError", "old_val is None")
    ELSE IF val.t # "list" THEN Raise("AssertionError", "isinstance list")
    ELSE IF ~Distinct(val.l) THEN Raise("AssertionError", "len(val_set)")
    ELSE IF name_ \notin Range(val.l) THEN Raise("AssertionError", name_)
    ELSE IF \E i \in DOMAIN val.l : ~Exists("triple/" \o val.l[i] \o ".yml")
         THEN Raise("AssertionError", "os.path.exists")
    ELSE Ok(val)

\* no return statement: the checker returns None
check_arch(key, val, old_val) ==
    IF old_val.t # "none" THEN Raise("AssertionError", "not unique")
    ELSE IF val.t = "none" THEN Raise("AssertionError", "not defined")
    ELSE IF val.t # "str" THEN Raise("AttributeError", "replace")
    ELSE IF Len(blacklist) = 0 THEN Raise("IndexError", "blacklist[-1]")
    ELSE IF "arch/" \o ReplaceDot(val.s) # Top(blacklist)
         THEN Raise("AssertionError", Top(blacklist))
    ELSE Ok(None)

check_endian(key, val, old_val) ==
    IF val.t = "none" THEN Raise("AssertionError", "not defined")
    ELSE IF val.t # "str" THEN Raise("TypeError", "unhashable")
    ELSE IF val.s \notin {"little", "big"}
         THEN Raise("AssertionError", "val in little, big")
    ELSE Ok(val)

\* (mutant) an absent value is defaulted to the empty list
check_cpp_default(key, val, old_val) ==
    IF val.t = "none" THEN Ok(Lst(<<>>))
    ELSE IF val.t # "list" THEN Raise("AssertionError", "isinstance list")
    ELSE IF \E i \in DOMAIN val.l : ~cpp_regex(val.l[i])
         THEN Raise("AssertionError", "cpp_regex.fullmatch")
    ELSE IF old_val.t # "none"
         THEN [Ok([old_val EXCEPT !.l = old_val.l \o val.l])
                  EXCEPT !.ext = TRUE]
    ELSE Ok(val)

check_cpp(key, val, old_val) ==
    IF val.t # "list" THEN Raise("AssertionError", "isinstance list")
    ELSE IF \E i \in DOMAIN val.l : ~cpp_regex(val.l[i])
         THEN Raise("AssertionError", "cpp_regex.fullmatch")
    ELSE IF old_val.t # "none"
         THEN [Ok([old_val EXCEPT !.l = old_val.l \o val.l])
                  EXCEPT !.ext = TRUE]
    ELSE Ok(val)

OverrideKeys == {"kernel", "libc", "default_char_sign", "short", "int",
                 "long", "long_long", "size", "ptr", "reg", "obj"}

\* sorted(dir(self)) restricted to the check_ attributes, prefix removed
CheckAttrs == <<"arch", "cpp", "default_char_sign", "endian", "freestanding",
                "int", "kernel", "libc", "long", "long_long", "obj", "ptr",
                "reg", "short", "size", "triples", "variant_flags",
                "variants">>

\* getattr(self, 'check_' + key, None) is not None
Registered(key) == key \in Range(CheckAttrs)

\* fun(key, val, old_val) for fun = getattr(self, 'check_' + key)
Check(key, val, old_val) ==
    CASE key = "triples" -> check_triples(key, val, old_val)
      [] key = "variants" -> check_variants(key, val, old_val)
      [] key = "variant_flags" -> _optional_unique_check(key, val, old_val)
      [] key = "freestanding" -> _bool_check(key, val, old_val)
      [] key = "arch" -> check_arch(key, val, old_val)
      [] key = "endian" -> check_endian(key, val, old_val)
      [] key = "cpp" -> check_cpp(key, val, old_val)
      [] key \in OverrideKeys -> _simple_override_check(key, val, old_val)

\* self._merged_dict.get(key)
Get(d, key) == IF key \in DOMAIN d THEN d[key] ELSE None

\* self._merged_dict[key] = val
Put(d, key, val) == [k \in DOMAIN d \cup {key} |->
                        IF k = key THEN val ELSE d[k]]

EmptyDict == [k \in {} |-> None]

(* ---------------------------------------------------------------------- *)
(* State                                                                   *)
(*   files      the documents on disk                                      *)
(*   cache      YamlCacher._cache                                          *)
(*   nloads     iterations of main's loop started so far                   *)
(*   tname      load's local `name` (suffix removed)                       *)
(*   name_, merged, done, blacklist   the Merger's fields                  *)
(*   frames     the active calls of _load: [name, i, j], i the index of    *)
(*              the item of od being processed, j how many names of its    *)
(*              import list have been passed to _load                      *)
(*   pc, vi     position in load / in verify's loop                        *)
(*   err        the exception that ended the process                       *)
(*   hist       what the current load has done so far (history)            *)
(*   prev       for each name, the record that the first load of that name *)
(*              in this process returned, as it was then (history)         *)
(* ---------------------------------------------------------------------- *)
NoErr == [type |-> "", why |-> "", key |-> "", doc |-> ""]
Err(type, why, key, doc) ==
    [type |-> type, why |-> why, key |-> key, doc |-> doc]

Ev(ev, name, key, val, stk, ok) ==
    [ev |-> ev, name |-> name, key |-> key, val |-> val, stk |-> stk,
     ok |-> ok]

Init ==
    /\ files \in FileSystems
    /\ cache = [fn \in {} |-> Absent]
    /\ nloads = 0
    /\ tname = ""
    /\ name_ = ""
    /\ merged = EmptyDict
    /\ done = {}
    /\ blacklist = <<>>
    /\ frames = <<>>
    /\ pc = "main"
    /\ vi = 1
    /\ err = NoErr
    /\ hist = <<>>
    /\ prev = [n \in {} |-> EmptyDict]

\* yaml.load: the lists of the document are new objects
_load_stream(fn) ==
    [files[fn] EXCEPT !.items =
        [i \in DOMAIN @ |->
            IF @[i].val.t = "list" THEN [@[i] EXCEPT !.val.o = fn]
            ELSE @[i]]]

\* an exception leaves load and main: the process ends
Fail(e) ==
    /\ pc' = "failed"
    /\ err' = e
    /\ frames' = <<>>

NextPhase(p) == IF p = "base" THEN "target" ELSE "verify"

\* main's loop body calls load: the suffix is removed, a Merger is created
StartLoad(t) ==
    /\ pc \in {"main", "returned"}
    /\ nloads < MaxLoads
    /\ nloads' = nloads + 1
    /\ tname' = IF EndsWith(t, ".yml")
                THEN SubSeq(t, 1, Len(t) - Len(".yml")) ELSE t
    /\ name_' = Basename(tname')
    /\ merged' = EmptyDict
    /\ done' = {}
    /\ blacklist' = <<>>
    /\ frames' = <<>>
    /\ pc' = "base"
    /\ vi' = 1
    /\ hist' = <<>>
    /\ UNCHANGED <<files, prev, cache, err>>

\* (mutant) the resolved set is never consulted
AlreadyDone_never(name) == FALSE

\* line 178: name in self._done
AlreadyDone(name) == name \in done

\* (mutant) the active stack is never consulted
OnStack_never(name) == FALSE

\* (mutant) only the innermost active name is compared
OnStack_top(name) == blacklist # <<>> /\ name = Top(blacklist)

\* line 181: name in self._blacklist
OnStack(name) == name \in Range(blacklist)

\* _load(name), lines 178-186, called with fr the caller's frames
Call(name, fr) ==
    IF AlreadyDone(name) THEN
        /\ frames' = fr
        /\ pc' = IF fr = <<>> THEN NextPhase(pc) ELSE pc
        /\ hist' = Append(hist, Ev("skip", name, "", None, blacklist, TRUE))
        /\ UNCHANGED <<blacklist, cache, err>>
    ELSE IF Contains(name, ".") THEN
        /\ Fail(Err("AssertionError", "dot in name", "", name))
        /\ UNCHANGED <<blacklist, cache, hist>>
    ELSE IF OnStack(name) THEN
        /\ Fail(Err("AssertionError", "name not in blacklist", "", name))
        /\ UNCHANGED <<blacklist, cache, hist>>
    ELSE
        LET fn == name \o ".yml" IN
        /\ blacklist' = Append(blacklist, name)
        /\ hist' = Append(hist, Ev("push", name, "", None, blacklist', TRUE))
        /\ IF fn \in DOMAIN cache THEN
               /\ cache' = cache
               /\ frames' = Append(fr, [name |-> name, i |-> 1, j |-> 0])
               /\ UNCHANGED <<pc, err>>
           ELSE IF ~Exists(fn) THEN
               /\ cache' = cache
               /\ Fail(Err("FileNotFoundError", "open", "", fn))
           ELSE
               /\ cache' = [f \in DOMAIN cache \cup {fn} |->
                               IF f = fn THEN _load_stream(fn) ELSE cache[f]]
               /\ IF cache'[fn].root # "map"
                  THEN Fail(Err("AssertionError", "isinstance OrderedDict",
                                "", fn))
                  ELSE /\ frames' = Append(fr, [name |-> name, i |-> 1,
                                                j |-> 0])
                       /\ UNCHANGED <<pc, err>>

\* load: rv._load('misc/default')
LoadBase ==
    /\ pc = "base"
    /\ frames = <<>>
    /\ Call(BaseName, <<>>)
    /\ UNCHANGED <<files, prev, nloads, tname, name_, merged, done, vi>>

\* load: rv._load(name)
LoadTarget ==
    /\ pc = "target"
    /\ frames = <<>>
    /\ Call(tname, <<>>)
    /\ UNCHANGED <<files, prev, nloads, tname, name_, merged, done, vi>>

InLoad == pc \in {"base", "target"} /\ frames # <<>>
TopFrame == frames[Len(frames)]
\* od of the running call of _load
Od == cache[TopFrame.name \o ".yml"]
HasItem == TopFrame.i <= Len(Od.items)
CurItem == Od.items[TopFrame.i]

\* (mutant) the import list is walked from its end
NextImport_reversed(l, j) == l[Len(l) - j]

\* line 190: the name that `for fn2 in val` yields after j names
NextImport(l, j) == l[j + 1]

\* _load, lines 188-192: the next name of an import list
ImportCall ==
    /\ InLoad
    /\ HasItem
    /\ CurItem.key = "import"
    /\ \/ /\ CurItem.val.t # "list"
          /\ Fail(Err("AssertionError", "isinstance list", "import",
                      TopFrame.name \o ".yml"))
          /\ UNCHANGED <<blacklist, cache, hist>>
       \/ /\ CurItem.val.t = "list"
          /\ TopFrame.j < Len(CurItem.val.l)
          /\ Call(NextImport(CurItem.val.l, TopFrame.j),
                  [frames EXCEPT ![Len(frames)].j = @ + 1])
    /\ UNCHANGED <<files, prev, nloads, tname, name_, merged, done, vi>>

\* _load, line 193: the import list is exhausted, continue
ImportEnd ==
    /\ InLoad
    /\ HasItem
    /\ CurItem.key = "import"
    /\ CurItem.val.t = "list"
    /\ TopFrame.j = Len(CurItem.val.l)
    /\ frames' = [frames EXCEPT ![Len(frames)] =
                     [@ EXCEPT !.i = @ + 1, !.j = 0]]
    /\ UNCHANGED <<files, prev, cache, nloads, tname, name_, merged, done,
                   blacklist, pc, vi, err, hist>>

\* old_val.extend(val) changes the list object that old_val refers to: the
\* value of `key` in the cached document whose parse created it
Extend(c, old_val, key, newl) ==
    IF old_val.o \in DOMAIN c
    THEN [c EXCEPT ![old_val.o].items =
            [i \in DOMAIN @ |->
                IF @[i].key = key THEN [@[i] EXCEPT !.val.l = newl]
                ELSE @[i]]]
    ELSE c

\* (mutant) a key without a checker is stored as it is
Dispatch_store(key, val, old_val) ==
    IF ~Registered(key) THEN Ok(val)
    ELSE Check(key, val, old_val)

\* _load, lines 194-199: look the checker up and call it
Dispatch(key, val, old_val) ==
    IF ~Registered(key) THEN Raise("KeyError", "Invalid key")
    ELSE Check(key, val, old_val)

\* _load, lines 194-200: a field of the document
CheckField ==
    /\ InLoad
    /\ HasItem
    /\ CurItem.key # "import"
    /\ LET key == CurItem.key
           fn == TopFrame.name \o ".yml"
           r == Dispatch(key, CurItem.val, Get(merged, key))
       IN /\ hist' = Append(hist, Ev(IF Registered(key) THEN "check"
                                     ELSE "nochecker",
                                     TopFrame.name, key, CurItem.val,
                                     blacklist, r.ok))
          /\ IF ~r.ok THEN
                 /\ Fail(Err(r.type, r.why, key, fn))
                 /\ UNCHANGED <<merged, cache>>
             ELSE
                 /\ merged' = Put(merged, key, r.val)
                 /\ cache' = IF r.ext
                             THEN Extend(cache, Get(merged, key), key,
                                         r.val.l)
                             ELSE cache
                 /\ frames' = [frames EXCEPT ![Len(frames)].i = @ + 1]
                 /\ UNCHANGED <<pc, err>>
    /\ UNCHANGED <<files, prev, nloads, tname, name_, done, blacklist, vi>>

\* (mutant) the name stays on the active stack
Pop_keep(bl) == bl

\* line 201: self._blacklist.pop()
Pop(bl) == SubSeq(bl, 1, Len(bl) - 1)

\* (mutant) the name is not recorded as resolved
AddDone_skip(d, name) == d

\* line 202: self._done.add(name)
AddDone(d, name) == d \cup {name}

\* _load, lines 201-202
Return ==
    /\ InLoad
    /\ ~HasItem
    /\ blacklist' = Pop(blacklist)
    /\ done' = AddDone(done, TopFrame.name)
    /\ frames' = SubSeq(frames, 1, Len(frames) - 1)
    /\ pc' = IF Len(frames) = 1 THEN NextPhase(pc) ELSE pc
    /\ hist' = Append(hist, Ev("pop", TopFrame.name, "", None, blacklist',
                               TRUE))
    /\ UNCHANGED <<files, prev, cache, nloads, tname, name_, merged, vi,
                   err>>

\* (mutant) the defaulting pass calls every checker
Missing_always(key) == TRUE

\* (mutant) the defaulting pass passes over one of the checkers
Missing_skip(key) == key \notin DOMAIN merged /\ key # "triples"

\* line 168: key not in self._merged_dict
Missing(key) == key \notin DOMAIN merged

\* verify, lines 164-172: one iteration of the loop over the checkers
VerifyField ==
    /\ pc = "verify"
    /\ vi <= Len(CheckAttrs)
    /\ LET key == CheckAttrs[vi] IN
       IF ~Missing(key) THEN
           /\ vi' = vi + 1
           /\ UNCHANGED <<merged, pc, err, frames, hist>>
       ELSE
           LET r == Check(key, None, None) IN
           /\ hist' = Append(hist, Ev("default", "", key, None, blacklist,
                                      r.ok))
           /\ IF ~r.ok THEN
                  /\ Fail(Err(r.type, r.why, key, ""))
                  /\ UNCHANGED <<merged, vi>>
              ELSE
                  /\ merged' = Put(merged, key, r.val)
                  /\ vi' = vi + 1
                  /\ UNCHANGED <<pc, err, frames>>
    /\ UNCHANGED <<files, prev, cache, nloads, tname, name_, done,
                   blacklist>>

\* bool(x) of a merged value
Truthy(v) ==
    CASE v.t = "bool" -> v.b
      [] v.t = "str" -> v.s # ""
      [] v.t = "list" -> v.l # <<>>
      [] v.t = "none" -> FALSE

\* (mutant) both signals are required
CrossCheck_both(d) ==
    (Len(d["variants"].l) > 1) =>
        (Truthy(d["freestanding"]) /\ Truthy(d["variant_flags"]))

\* line 173: the asserted condition
CrossCheck(d) ==
    (Len(d["variants"].l) > 1) =>
        (Truthy(d["freestanding"]) \/ Truthy(d["variant_flags"]))

\* verify, line 173, then load returns the Merger
VerifyCross ==
    /\ pc = "verify"
    /\ vi > Len(CheckAttrs)
    /\ IF \E k \in {"variants", "freestanding", "variant_flags"} :
              k \notin DOMAIN merged
       THEN /\ Fail(Err("KeyError", "merged_dict", "variants", ""))
            /\ prev' = prev
       ELSE IF CrossCheck(merged)
       THEN /\ pc' = "returned"
            /\ prev' = IF tname \in DOMAIN prev THEN prev
                       ELSE [n \in DOMAIN prev \cup {tname} |->
                               IF n = tname THEN merged ELSE prev[n]]
            /\ UNCHANGED <<err, frames>>
       ELSE /\ Fail(Err("AssertionError", name_, "variants", ""))
            /\ prev' = prev
    /\ UNCHANGED <<files, cache, nloads, tname, name_, merged, done,
                   blacklist, vi, hist>>

Next ==
    \/ \E t \in Targets : StartLoad(t)
    \/ LoadBase
    \/ LoadTarget
    \/ ImportCall
    \/ ImportEnd
    \/ CheckField
    \/ Return
    \/ VerifyField
    \/ VerifyCross

Spec == Init /\ [][Next]_vars

\* a step of a load that has been started: the interpreter runs the call of
\* load to its return or to the exception that ends it
LoadStep ==
    \/ LoadBase
    \/ LoadTarget
    \/ ImportCall
    \/ ImportEnd
    \/ CheckField
    \/ Return
    \/ VerifyField
    \/ VerifyCross

\* the runs in which a started load is not suspended for ever
LiveSpec == Spec /\ WF_vars(LoadStep)

TypeOK ==
    /\ pc \in {"main", "base", "target", "verify", "returned", "failed"}
    /\ nloads \in 0..MaxLoads
    /\ DOMAIN cache \subseteq FileNames
    /\ DOMAIN merged \subseteq Range(CheckAttrs)

(* ---------------------------------------------------------------------- *)
(* Vocabulary of the properties                                            *)
(* ---------------------------------------------------------------------- *)
Events == DOMAIN hist
Checks(key) == {i \in Events : hist[i].ev = "check" /\ hist[i].key = key}
Pushed == {hist[i].name : i \in {k \in Events : hist[k].ev = "push"}}
Skipped == {hist[i].name : i \in {k \in Events : hist[k].ev = "skip"}}

\* the document that file name.yml holds on disk
OnDisk(name) ==
    IF Exists(name \o ".yml") /\ files[name \o ".yml"].root = "map"
    THEN files[name \o ".yml"].items ELSE <<>>
KeysOf(name) == {OnDisk(name)[i].key : i \in DOMAIN OnDisk(name)}
ValueOf(name, key) ==
    LET its == OnDisk(name)
    IN its[CHOOSE i \in DOMAIN its : its[i].key = key].val
\* the names that name.yml lists under its import key
Imports(name) ==
    IF "import" \in KeysOf(name) THEN Range(ValueOf(name, "import").l)
    ELSE {}
IndexOf(name, key) ==
    LET its == OnDisk(name) IN CHOOSE i \in DOMAIN its : its[i].key = key

DocNames == {SubSeq(fn, 1, Len(fn) - 4) : fn \in FileNames}

\* the names the import graph reaches from a set of names
RECURSIVE ReachFrom(_)
ReachFrom(S) ==
    LET T == S \cup UNION {Imports(n) : n \in S}
    IN IF T = S THEN S ELSE ReachFrom(T)
Reachable == ReachFrom({BaseName, tname})

\* a document that imports itself, or two that import each other
ImportCycle ==
    \E a \in Reachable : \E b \in Imports(a) : a \in Imports(b)

\* the call of _load that the next step makes, if it makes one
PendingCalls ==
    IF pc = "base" /\ frames = <<>> THEN {BaseName}
    ELSE IF pc = "target" /\ frames = <<>> THEN {tname}
    ELSE IF InLoad /\ HasItem /\ CurItem.key = "import"
            /\ CurItem.val.t = "list" /\ TopFrame.j < Len(CurItem.val.l)
    THEN {CurItem.val.l[TopFrame.j + 1]}
    ELSE {}

CycleErr(name) == Err("AssertionError", "name not in blacklist", "", name)

(* ---------------------------------------------------------------------- *)
(* C1: within one load every document is entered at most once and each of  *)
(* its fields is passed to its checker at most once, however often the     *)
(* document is imported; when the load returns, every field of every       *)
(* document it entered has been passed to its checker exactly once.        *)
(* ---------------------------------------------------------------------- *)
C1_FieldsOnce ==
    /\ \A i, k \in Events :
          (/\ i < k
           /\ hist[i].ev = hist[k].ev
           /\ hist[i].ev \in {"push", "check"}
           /\ hist[i].name = hist[k].name)
          => hist[i].key # hist[k].key
    /\ pc = "returned" =>
          \A n \in Pushed \cup Skipped : \A key \in KeysOf(n) \ {"import"} :
              Cardinality({i \in Checks(key) : hist[i].name = n}) = 1

\* a load returned although lib/c, which has a field that must be unique,
\* was imported a second time
C1_Witness ==
    /\ pc = "returned"
    /\ "lib/c" \in Pushed \cap Skipped
    /\ \E i \in Checks("variant_flags") : hist[i].name = "lib/c"

(* ---------------------------------------------------------------------- *)
(* C2 (as claimed): whenever the import graph reachable from the base      *)
(* document or the target has a self-import or a mutually importing pair,  *)
(* the load ends with the cycle error and never returns a record.          *)
(* ---------------------------------------------------------------------- *)
C2_AsClaimed ==
    (pc \in {"returned", "failed"} /\ ImportCycle) =>
        (pc = "failed" /\ \E n \in DocNames : err = CycleErr(n))

(* ---------------------------------------------------------------------- *)
(* C2 (amended): with such a cycle in the reachable import graph the load  *)
(* never returns a record; and a call of the resolver for a name that is   *)
(* on the active stack raises the cycle error at that very step.  (The     *)
(* load may have been ended before by another error.)                      *)
(* ---------------------------------------------------------------------- *)
C2_CycleFails ==
    /\ [](pc = "returned" => ~ImportCycle)
    /\ [][\A n \in PendingCalls :
            n \in Range(blacklist) =>
                (pc' = "failed" /\ err' = CycleErr(n)
                 /\ blacklist' = blacklist /\ done' = done)]_vars

\* a load ended by the cycle error of two documents importing each other
C2_Witness ==
    /\ pc = "failed"
    /\ \E n \in DocNames :
          /\ err = CycleErr(n)
          /\ n \in Range(blacklist)
          /\ Top(blacklist) # n

(* ---------------------------------------------------------------------- *)
(* C3: in every state of a load, a failed one included, no name is both    *)
(* on the active stack and in the done set, and the active stack holds no  *)
(* name twice.                                                             *)
(* ---------------------------------------------------------------------- *)
C3_ActiveDoneDisjoint ==
    /\ Range(blacklist) \cap done = {}
    /\ Distinct(blacklist)

\* a load that failed two calls deep, after two documents had been resolved
C3_Witness ==
    /\ pc = "failed"
    /\ Len(blacklist) >= 2
    /\ Cardinality(done) >= 2

(* ---------------------------------------------------------------------- *)
(* C4: a record that load returns holds every registered field, each as    *)
(* one key of the record, and no other key; a load that does not return    *)
(* such a record has raised.                                               *)
(* ---------------------------------------------------------------------- *)
C4_AllFieldsOrError ==
    /\ pc = "returned" => (DOMAIN merged = Range(CheckAttrs) /\ err = NoErr)
    /\ pc = "failed" => err # NoErr

\* a returned record some of whose fields were set by a document and some
\* by the defaulting pass
C4_Witness ==
    /\ pc = "returned"
    /\ \E i \in Events : hist[i].ev = "default" /\ hist[i].key = "variants"
    /\ Checks("variant_flags") # {}

(* ---------------------------------------------------------------------- *)
(* C5 (as claimed): in a record that load returns, for an override field F *)
(* that a document X sets to "1" and a document Y importing X sets to "2", *)
(* the merged value of F is "2".                                           *)
(* ---------------------------------------------------------------------- *)
C5_AsClaimed ==
    pc = "returned" =>
        \A F \in OverrideKeys : \A Y \in Pushed : \A X \in Imports(Y) :
            (/\ F \in KeysOf(X) /\ ValueOf(X, F) = Str("1")
             /\ F \in KeysOf(Y) /\ ValueOf(Y, F) = Str("2"))
            => merged[F] = Str("2")

LastCheck(key) == CHOOSE i \in Checks(key) : \A k \in Checks(key) : k <= i

(* ---------------------------------------------------------------------- *)
(* C5 (amended): in a record that load returns, the value of an override   *)
(* field F is the value given by the document whose F was applied last;    *)
(* so when X sets F="1" and Y, which imports X, sets F="2" after its       *)
(* import key, the merged value is "2" unless a document applied after     *)
(* that sets F again.                                                      *)
(* ---------------------------------------------------------------------- *)
C5_LastWriterWins ==
    pc = "returned" =>
        \A F \in OverrideKeys :
            /\ Checks(F) # {}
            /\ merged[F] = ValueOf(hist[LastCheck(F)].name, F)
            /\ \A Y \in Pushed : \A X \in Imports(Y) :
                  (/\ F \in KeysOf(X) /\ ValueOf(X, F) = Str("1")
                   /\ F \in KeysOf(Y) /\ ValueOf(Y, F) = Str("2")
                   /\ IndexOf(Y, "import") < IndexOf(Y, F)
                   /\ hist[LastCheck(F)].name = Y)
                  => merged[F] = Str("2")

\* triple/t imports arch/a, which sets kernel to "1", then sets it to "2"
C5_Witness ==
    /\ pc = "returned"
    /\ tname = "triple/t"
    /\ "arch/a" \in Imports(tname)
    /\ \E i \in Checks("kernel") :
          hist[i].name = "arch/a" /\ hist[i].val = Str("1")
    /\ hist[LastCheck("kernel")].name = tname
    /\ merged["kernel"] = Str("2")

\* the lists that the documents on disk give for key, concatenated in the
\* order in which the first n steps of the load passed them to the checker
RECURSIVE Given(_, _)
Given(key, n) ==
    IF n = 0 THEN <<>>
    ELSE IF n \in Checks(key)
         THEN Given(key, n - 1) \o ValueOf(hist[n].name, key).l
         ELSE Given(key, n - 1)

(* ---------------------------------------------------------------------- *)
(* C6: in a record that load returns, the value of cpp is the              *)
(* concatenation, in the order of application, of the lists that the       *)
(* documents give for cpp, duplicates kept; so with X giving ["a"] and its *)
(* importer Y giving ["b"] after the import it is ["a", "b"].              *)
(* ---------------------------------------------------------------------- *)
C6_Concatenation ==
    pc = "returned" => merged["cpp"].l = Given("cpp", Len(hist))

(* ---------------------------------------------------------------------- *)
(* C7 (as claimed): when the defaulting pass finds cpp unset, it stores    *)
(* the empty list and the load does not fail because of cpp.               *)
(* ---------------------------------------------------------------------- *)
C7_AsClaimed ==
    \A i \in Events :
        (hist[i].ev = "default" /\ hist[i].key = "cpp") =>
            /\ ~(pc = "failed" /\ err.key = "cpp")
            /\ "cpp" \in DOMAIN merged
            /\ merged["cpp"].l = <<>>

(* ---------------------------------------------------------------------- *)
(* C7 (amended): when no document reached by a load sets cpp, the load     *)
(* returns no record: if the defaulting pass gets as far as cpp, the       *)
(* checker is called with an absent value and rejects it (not a list);     *)
(* cpp is never defaulted to the empty list.                               *)
(* ---------------------------------------------------------------------- *)
C7_CppNeverDefaulted ==
    /\ pc = "returned" => Checks("cpp") # {}
    /\ \A i \in Events :
          (hist[i].ev = "default" /\ hist[i].key = "cpp") =>
              /\ Checks("cpp") = {}
              /\ pc = "failed"
              /\ err = Err("AssertionError", "isinstance list", "cpp", "")
              /\ "cpp" \notin DOMAIN merged

\* the defaulting pass reached cpp, which no document had set, and failed
C7_Witness ==
    /\ pc = "failed"
    /\ err.key = "cpp"
    /\ Checks("cpp") = {}
    /\ \E i \in Events : hist[i].ev = "default" /\ hist[i].key = "cpp"
    /\ "arch" \in DOMAIN merged

(* ---------------------------------------------------------------------- *)
(* C8: when a load checks the arch fields of two distinct documents, the   *)
(* check of the second one fails with the not-unique error.                *)
(* ---------------------------------------------------------------------- *)
C8_ArchUnique ==
    \A i, k \in Checks("arch") :
        (i < k /\ hist[i].name # hist[k].name) =>
            /\ ~hist[k].ok
            /\ pc = "failed"
            /\ err.key = "arch"
            /\ err.why = "not unique"

(* ---------------------------------------------------------------------- *)
(* C9: a triples field is accepted only when it is checked with the        *)
(* target's own document as the single name on the active stack, no        *)
(* triples accepted before, the target's name as first element and no      *)
(* element repeated; every other triples field ends the load, so a         *)
(* returned record took its triples from the target's document and no      *)
(* other document entered by the load has a triples field.                 *)
(* ---------------------------------------------------------------------- *)
C9_TriplesOnlyInTop ==
    /\ \A i \in Checks("triples") :
          /\ hist[i].ok =>
                /\ hist[i].stk = <<tname>>
                /\ hist[i].name = tname
                /\ \A k \in Checks("triples") : i <= k
                /\ hist[i].val.l[1] = name_
                /\ Distinct(hist[i].val.l)
          /\ ~hist[i].ok => (pc = "failed" /\ err.key = "triples")
    /\ pc = "returned" =>
          /\ \E i \in Checks("triples") : hist[i].ok
          /\ \A n \in (Pushed \cup Skipped) \ {tname} :
                "triples" \notin KeysOf(n)
          /\ merged["triples"].l = ValueOf(tname, "triples").l

\* a triples field with the right first element, found in a document that
\* was reached through an import, ended the load
C9_Witness ==
    /\ pc = "failed"
    /\ err.key = "triples"
    /\ err.why = "triple must be in top file"
    /\ Len(blacklist) = 2
    /\ \E i \in Checks("triples") :
          hist[i].val.l[1] = name_ /\ Distinct(hist[i].val.l)

UnknownKeys(n) == {key \in KeysOf(n) \ {"import"} : ~Registered(key)}

(* ---------------------------------------------------------------------- *)
(* C10 (as claimed): a load that entered a document holding a key other    *)
(* than import without a checker ends with the unknown-field error naming  *)
(* such a key and its document.                                            *)
(* ---------------------------------------------------------------------- *)
C10_AsClaimed ==
    (pc \in {"returned", "failed"} /\ \E n \in Pushed : UnknownKeys(n) # {})
    => /\ pc = "failed"
       /\ \E n \in Pushed : \E key \in UnknownKeys(n) :
             err = Err("KeyError", "Invalid key", key, n \o ".yml")

(* ---------------------------------------------------------------------- *)
(* C10 (amended): a load that entered a document holding a key other than  *)
(* import without a checker never returns a record; when the resolver      *)
(* comes to that key it raises the unknown-field error naming the key and  *)
(* the document's file (another error may have ended the load before);     *)
(* the key is never skipped and never stored in the record.                *)
(* ---------------------------------------------------------------------- *)
C10_UnknownKeyFatal ==
    /\ [](pc = "returned" => \A n \in Pushed : UnknownKeys(n) = {})
    /\ [](\A key \in DOMAIN merged : Registered(key))
    /\ [][(InLoad /\ HasItem /\ CurItem.key # "import"
             /\ ~Registered(CurItem.key))
          => /\ pc' = "failed"
             /\ err' = Err("KeyError", "Invalid key", CurItem.key,
                           TopFrame.name \o ".yml")
             /\ merged' = merged]_vars

\* the key bogus of triple/t.yml ended the load
C10_Witness ==
    /\ pc = "failed"
    /\ err = Err("KeyError", "Invalid key", "bogus", "triple/t.yml")
    /\ "bogus" \in UnknownKeys("triple/t")
    /\ Top(blacklist) = "triple/t"

C12_CacheImmutable ==
    \A fn \in DOMAIN cache : cache[fn] = _load_stream(fn)

(* ---------------------------------------------------------------------- *)
(* C13: the record that load returns for a name does not depend on the     *)
(* loads run before it with the same cache: a later load of a name returns *)
(* the record that the first load of that name returned.                   *)
(* ---------------------------------------------------------------------- *)
C13_SameRecord ==
    (pc = "returned" /\ tname \in DOMAIN prev) => merged = prev[tname]

Defaults(key) == {i \in Events : hist[i].ev = "default" /\ hist[i].key = key}

(* ---------------------------------------------------------------------- *)
(* C14: an override field that no document of the load has set is never    *)
(* filled in by the defaulting pass: when verify comes to it, the checker  *)
(* is called with an absent value and rejects it, so verify fails and the  *)
(* load returns no record.                                                 *)
(* ---------------------------------------------------------------------- *)
C14_OverrideNeverDefaulted ==
    \A F \in OverrideKeys :
        /\ F \in DOMAIN merged => Checks(F) # {}
        /\ pc = "returned" => \E i \in Checks(F) : hist[i].ok
        /\ \A i \in Defaults(F) :
              /\ Checks(F) = {}
              /\ ~hist[i].ok
              /\ pc = "failed"
              /\ err = Err("AssertionError", "not defined", F, "")

\* verify reached obj, which no document had set, and failed there
C14_Witness ==
    /\ pc = "failed"
    /\ err = Err("AssertionError", "not defined", "obj", "")
    /\ Checks("obj") = {}
    /\ Defaults("obj") # {}
    /\ {BaseName, tname} \subseteq done

\* the events that apply a field, and those of one document
IsField(i) == hist[i].ev \in {"check", "nochecker"}
FieldsOf(D) == {i \in Events : IsField(i) /\ hist[i].name = D}
Pushes == {p \in Events : hist[p].ev = "push"}
PoppedBefore(E, i) ==
    \E m \in Events : m < i /\ hist[m].ev = "pop" /\ hist[m].name = E
HasImports(D) ==
    "import" \in KeysOf(D) /\ ValueOf(D, "import").t = "list"
ImportList(D) == ValueOf(D, "import").l
BeforeImport(D, i) == IndexOf(D, hist[i].key) < IndexOf(D, "import")
\* the stack of event j extends the stack that push p left
Below(p, j) ==
    /\ j > p
    /\ Len(hist[j].stk) > Len(hist[p].stk)
    /\ SubSeq(hist[j].stk, 1, Len(hist[p].stk)) = hist[p].stk
\* the calls of _load that the document entered by push p makes, and the
\* fields applied inside them
Entries(p) ==
    {j \in Events :
        /\ j > p
        /\ \/ hist[j].ev = "push"
              /\ hist[j].stk = Append(hist[p].stk, hist[j].name)
           \/ hist[j].ev = "skip" /\ hist[j].stk = hist[p].stk}
Rank(p, j) == Cardinality({e \in Entries(p) : e <= j})
FieldsUnder(p) == {j \in Events : IsField(j) /\ Below(p, j)}

(* ---------------------------------------------------------------------- *)
(* C15, as claimed: in a successful load, for a document D with an import  *)
(* key, every field of D before the key is applied before any field of a   *)
(* document D lists, and every field of D after the key is applied after   *)
(* every field of the documents D reaches.                                 *)
(* ---------------------------------------------------------------------- *)
C15_AsClaimed ==
    pc = "returned" =>
        \A D \in Pushed : HasImports(D) =>
            \A i \in FieldsOf(D) :
                IF BeforeImport(D, i)
                THEN \A E \in Imports(D) \ {D} : \A j \in FieldsOf(E) : i < j
                ELSE \A E \in ReachFrom(Imports(D)) \ {D} :
                        \A j \in FieldsOf(E) : j < i

(* ---------------------------------------------------------------------- *)
(* C15: when a document D has an import key, every field of D before the   *)
(* key is applied before any field applied while D's imports are resolved; *)
(* the listed names are entered one after another in listed order, each    *)
(* one either skipped because it is already resolved (its fields were      *)
(* applied earlier and are not applied again) or resolved completely       *)
(* before the next is entered; every field of D after the key is applied   *)
(* only when all listed names have been entered and resolved and after     *)
(* every field applied under D.  A field of a listed document is applied   *)
(* either before D is entered or under D, never after D's later fields.    *)
(* ---------------------------------------------------------------------- *)
C15_DepthFirst ==
    \A p \in Pushes :
        LET D == hist[p].name IN
        HasImports(D) =>
            /\ \A e \in Entries(p) :
                  /\ Rank(p, e) <= Len(ImportList(D))
                  /\ hist[e].name = ImportList(D)[Rank(p, e)]
                  /\ \A f \in Entries(p) :
                        (e < f /\ hist[e].ev = "push") =>
                            \E m \in Events :
                                /\ e < m /\ m < f
                                /\ hist[m].ev = "pop"
                                /\ hist[m].name = hist[e].name
            /\ \A i \in FieldsOf(D) :
                  IF BeforeImport(D, i)
                  THEN /\ Entries(p) \cap 1..i = {}
                       /\ \A j \in FieldsUnder(p) : i < j
                  ELSE /\ Cardinality(Entries(p)) = Len(ImportList(D))
                       /\ \A e \in Entries(p) : e < i
                       /\ \A E \in Range(ImportList(D)) : PoppedBefore(E, i)
                       /\ \A j \in FieldsUnder(p) : j < i
            /\ \A E \in Imports(D) \ {D} : \A j \in FieldsOf(E) :
                  j > p => j \in FieldsUnder(p)

\* a successful load in which a document with fields on both sides of its
\* import key resolved one import and skipped another, resolved earlier
C15_Witness ==
    /\ pc = "returned"
    /\ \E p \in Pushes :
          LET D == hist[p].name IN
          /\ HasImports(D)
          /\ Len(ImportList(D)) = 2
          /\ \E e, f \in Entries(p) :
                hist[e].ev = "push" /\ hist[f].ev = "skip"
          /\ \E i, k \in FieldsOf(D) :
                BeforeImport(D, i) /\ ~BeforeImport(D, k)
          /\ FieldsUnder(p) # {}

AllDefaults == {i \in Events : hist[i].ev = "default"}

(* ---------------------------------------------------------------------- *)
(* C16: verify's defaulting pass runs only when the base document and the  *)
(* target have both been resolved and nothing is active; it calls a        *)
(* checker, with None for the new and for the previous value, only for a   *)
(* registered field whose key is not in the record, at most once per       *)
(* field and after every document field has been applied; and no step of   *)
(* verify changes or removes a value that the record already holds.        *)
(* ---------------------------------------------------------------------- *)
C16_DefaultsOnlyMissing ==
    /\ [](pc = "verify" =>
            /\ {BaseName, tname} \subseteq done
            /\ blacklist = <<>>
            /\ frames = <<>>)
    /\ [](\A i \in AllDefaults :
            /\ pc \in {"verify", "returned", "failed"}
            /\ Registered(hist[i].key)
            /\ hist[i].val = None
            /\ \A k \in Events :
                  /\ (IsField(k) \/ hist[k].ev \in {"push", "pop", "skip"})
                        => k < i
                  /\ (IsField(k) /\ hist[k].ok) => hist[k].key # hist[i].key
                  /\ (hist[k].ev = "default" /\ k # i)
                        => hist[k].key # hist[i].key)
    /\ [][pc = "verify" =>
            /\ \A k \in DOMAIN merged :
                  k \in DOMAIN merged' /\ merged'[k] = merged[k]
            /\ IF vi <= Len(CheckAttrs) /\ CheckAttrs[vi] \notin DOMAIN merged
               THEN /\ hist' = Append(hist, Ev("default", "", CheckAttrs[vi],
                                               None, <<>>,
                                               Check(CheckAttrs[vi], None,
                                                     None).ok))
                    /\ DOMAIN merged' \subseteq
                          DOMAIN merged \cup {CheckAttrs[vi]}
               ELSE hist' = hist /\ merged' = merged]_vars

\* a returned record in which freestanding was defaulted and kernel still
\* has the value that the last document gave it
C16_Witness ==
    /\ pc = "returned"
    /\ \E i \in Defaults("freestanding") : hist[i].ok
    /\ merged["freestanding"] = Bool(FALSE)
    /\ Checks("kernel") # {}
    /\ merged["kernel"] = hist[LastCheck("kernel")].val
    /\ Cardinality(AllDefaults) >= 2

(* ---------------------------------------------------------------------- *)
(* C17: the active stack is empty when a load starts (before its first     *)
(* call of _load) and empty when the load returns; in a returned load the  *)
(* base document, the target and every name pushed during the load are in  *)
(* the resolved set, and every skipped name was in it already.             *)
(* ---------------------------------------------------------------------- *)
C17_StackEmptyAllResolved ==
    /\ (pc = "base" /\ hist = <<>>) => (blacklist = <<>> /\ done = {})
    /\ pc = "returned" =>
          /\ blacklist = <<>>
          /\ {BaseName, tname} \subseteq done
          /\ Pushed \subseteq done
          /\ Skipped \subseteq done
          /\ Pushed \subseteq Reachable

\* a returned load that entered the base, the target and two levels of
\* imports
C17_Witness ==
    /\ pc = "returned"
    /\ Cardinality(Pushed) >= 4
    /\ \E i \in Pushes : Len(hist[i].stk) = 3
    /\ done = Pushed

(* ---------------------------------------------------------------------- *)
(* C18: after a successful load in which exactly one document defined arch *)
(* with value v, the value of arch in the merged record is v.              *)
(* ---------------------------------------------------------------------- *)
C18_ArchValue ==
    (pc = "returned" /\ Cardinality(Checks("arch")) = 1) =>
        /\ "arch" \in DOMAIN merged
        /\ merged["arch"] = hist[LastCheck("arch")].val

PushesOfName(n) == {p \in Pushes : hist[p].name = n}

(* ---------------------------------------------------------------------- *)
(* C19: every load that is started ends, by returning a record or by an    *)
(* exception, whatever the import graph: within one load a name is pushed  *)
(* onto the active stack at most once, the names on the stack are          *)
(* distinct, and the depth of the stack and the number of pushes are at    *)
(* most the number of names that the base document and the target reach.   *)
(* ---------------------------------------------------------------------- *)
C19_LoadTerminates ==
    /\ [](/\ \A n \in Pushed : Cardinality(PushesOfName(n)) = 1
          /\ \A a, b \in DOMAIN blacklist :
                blacklist[a] = blacklist[b] => a = b
          /\ Pushed \subseteq Reachable
          /\ Len(blacklist) <= Cardinality(Reachable)
          /\ Len(frames) <= Len(blacklist)
          /\ Cardinality(Pushes) <= Cardinality(Reachable))
    /\ (pc \in {"base", "target", "verify"}) ~> (pc \in {"returned", "failed"})

\* a load over an import graph with a cycle has ended, after it went three
\* calls deep
C19_Witness ==
    /\ pc = "failed"
    /\ ImportCycle
    /\ err = CycleErr(err.doc)
    /\ Cardinality(Pushes) >= 3
    /\ Len(blacklist) = 3
    /\ err.doc = blacklist[2]

====
